---- MODULE Spec2Model ----
(***************************************************************************)
(* A model of parse(gltf, options) of src/src/utils/parser.js: the scene   *)
(* graph compiler of gltfvue.  One call of parse is a chain of steps       *)
(* (index, flatten, dry run, re-parent, remove, final compile, assemble);   *)
(* the graph is mutated in place and survives the call, so a second call    *)
(* on the same graph instance starts from the graph the first one left.     *)
(*                                                                         *)
(* Text is a sequence of tokens ("<Tag ", an attribute, ">" or "/>", a      *)
(* closing tag) in the order the source concatenates them.  A token's       *)
(* node and num fields are bookkeeping of the model (which node emitted     *)
(* it, the numeric value behind the formatted text); Render drops them.     *)
(*                                                                         *)
(* Transforms are restricted to the sub-family of three.js transforms that  *)
(* compose exactly: translation along x, rotation about x by quarter turns, *)
(* uniform positive scale.                                                  *)
(***************************************************************************)
EXTENDS Integers, Sequences, FiniteSets, TLC

\* ------------------------------------------------------------------ bounds

MaxNodes == 3
MaxGrand == 2
MaxMeshes == 3
MaxCalls == 2
MaxProps == 2
MaxPrecision == 3
MaxClips == 2

Max(a, b) == IF a > b THEN a ELSE b
Nodes == 1 .. Max(MaxNodes, Max(MaxGrand + 3, MaxMeshes + 1))
Root == 1
NoNode == 0

\* ------------------------------------------------------------- small helpers

RECURSIVE SeqToSet(_)
SeqToSet(s) == IF s = <<>> THEN {} ELSE {Head(s)} \cup SeqToSet(Tail(s))

Remove(s, x) == SelectSeq(s, LAMBDA y : y # x)

IndexOf(s, x) == CHOOSE i \in 1 .. Len(s) : s[i] = x

Contains(s, x) == \E i \in 1 .. Len(s) : s[i] = x

\* ------------------------------------------------------------------- names
\* A name is a sequence of one-character strings.

Lower == {"a", "b", "e", "d", "r", "t", "p"}
Upper == {"A", "B", "R", "P"}
Letters == Lower \cup Upper
Digits == {"0", "1", "2", "3", "4", "5", "6", "7", "8", "9"}

ToUpperCase(c) ==
  CASE c = "a" -> "A"
    [] c = "b" -> "B"
    [] c = "r" -> "R"
    [] c = "p" -> "P"
    [] OTHER -> c

Undefined == <<"u", "n", "d", "e", "f", "i", "n", "e", "d">>
Part == <<"P", "a", "r", "t">>
Red == <<"R", "e", "d">>

\* isVarName (src/utils/isVarName.js, imported by parser.js): a name usable
\* after a dot.
isVarName(name) ==
  /\ Len(name) > 0
  /\ name[1] \in Letters
  /\ \A i \in 1 .. Len(name) : name[i] \in Letters \cup Digits

sanitizeName(name) ==
  IF isVarName(name) THEN <<".">> \o name ELSE <<"['">> \o name \o <<"']">>

\* The decimal text of a one-digit index.
Digit(i) == ToString(i)

\* ------------------------------------------------------------------ kinds
\* obj.type of three.js objects.

GroupTypes == {"Group", "Object3D"}
MeshTypes == {"Mesh", "InstancedMesh"}
Types ==
  {"Scene", "Group", "Object3D", "Mesh", "InstancedMesh", "PointLight", "Bone",
   "PerspectiveCamera", "OrthographicCamera"}

getType(t) ==
  CASE t = "Scene" -> "scene"
    [] t = "Group" -> "group"
    [] t = "Object3D" -> "group"
    [] t = "Mesh" -> "mesh"
    [] t = "InstancedMesh" -> "instancedMesh"
    [] t = "PointLight" -> "pointLight"
    [] t = "Bone" -> "bone"
    [] t = "PerspectiveCamera" -> "TresPerspectiveCamera"
    [] t = "OrthographicCamera" -> "TresOrthographicCamera"

getTresType(type) ==
  CASE type = "scene" -> "TresScene"
    [] type = "group" -> "TresGroup"
    [] type = "mesh" -> "TresMesh"
    [] type = "instancedMesh" -> "TresInstancedMesh"
    [] type = "pointLight" -> "TresPointLight"
    [] type = "bone" -> "TresBone"
    [] type = "TresPerspectiveCamera" -> "TresTresPerspectiveCamera"
    [] type = "TresOrthographicCamera" -> "TresTresOrthographicCamera"

\* ------------------------------------------------------------------ state

VARIABLES
  node,        \* the fields of each object that parse only reads
  graph,       \* the fields parse mutates: children, parent, transform, __removed
  options,     \* the options argument
  animations,  \* gltf.animations.length
  objects,     \* const objects (line 17)
  duplicates,  \* duplicates.geometries, in insertion order
  scene,       \* let scene (line 461): [set, text]
  output,      \* what the call returned, if it returned; error is the node a
               \* returned error result names (parse builds no such result)
  thrown,      \* the node at which print threw, NoNode if it did not
  pc,          \* the step parse is at
  calls,       \* how many calls of parse have been started on this graph
  input,       \* the graph as it was given to the first call
  before,      \* __removed of every node when the last run of print began
  hits,        \* the nodes for which prune returned a replacement in that run
  fired,       \* which rule it was: [node, rule, child, own, first]: child is
               \* the first child, own and first the keys of the attributes
               \* the serializer wrote for the node and for that child
  texts,       \* the scene text of each finished call, in order
  dry          \* the graph as the last dry run left it

vars == <<node, graph, options, animations, objects, duplicates, scene, output,
          thrown, pc, calls, input, before, hits, fired, texts, dry>>

\* ----------------------------------------------------------------- tokens

Tok(k, tag, n, key, syn, val, num) ==
  [k |-> k, tag |-> tag, node |-> n, key |-> key, syn |-> syn, val |-> val, num |-> num]

Open(n, tag) == Tok("<", tag, n, "", "", <<>>, <<>>)
Attr(n, key, syn, val, num) == Tok("attr", <<>>, n, key, syn, val, num)
TagEnd(n, k) == Tok(k, <<>>, n, "", "", <<>>, <<>>)
Close(tag) == Tok("</", tag, NoNode, "", "", <<>>, <<>>)

\* The text as the caller sees it: without the model's bookkeeping fields.
Render(text) ==
  [i \in 1 .. Len(text) |->
     [k |-> text[i].k, tag |-> text[i].tag, key |-> text[i].key,
      syn |-> text[i].syn, val |-> text[i].val]]

\* ------------------------------------------------------------- three.js

isMesh(o) == node[o].type \in MeshTypes
isInstancedMesh(o) == node[o].type = "InstancedMesh"

Local(G, o) ==
  [position |-> G.position[o], rotation |-> G.rotation[o], scale |-> G.scale[o]]

Identity == [position |-> 0, rotation |-> 0, scale |-> 1]

\* Euler angle of a rotation about x, as Euler.setFromQuaternion gives it:
\* quarter turns in -1 .. 2.
NormRot(q) == ((q + 1) % 4) - 1

\* Matrix4 product of two transforms of the modelled family.
Compose(A, B) ==
  [position |-> A.position + A.scale * B.position,
   rotation |-> NormRot(A.rotation + B.rotation),
   scale |-> A.scale * B.scale]

\* Object3D.updateWorldMatrix(true, false) then matrixWorld.decompose.
RECURSIVE matrixWorld(_, _)
matrixWorld(G, o) ==
  IF G.parent[o] = NoNode THEN Local(G, o)
  ELSE Compose(matrixWorld(G, G.parent[o]), Local(G, o))

\* Object3D.traverse: the object, then each child's traversal, in child order.
RECURSIVE traverse(_, _), traverseAll(_, _)
traverse(G, o) == <<o>> \o traverseAll(G, G.children[o])
traverseAll(G, s) ==
  IF s = <<>> THEN <<>> ELSE traverse(G, Head(s)) \o traverseAll(G, Tail(s))

\* Object3D.remove(child) on child's parent.
Detach(G, c) ==
  IF G.parent[c] = NoNode THEN G
  ELSE [G EXCEPT !.children[G.parent[c]] = Remove(@, c), !.parent[c] = NoNode]

\* Object3D.add(child): refuses the object itself, takes the child from its
\* parent, appends it to the end of the child list.
add(G, p, c) ==
  IF c = p THEN G
  ELSE LET D == Detach(G, c)
       IN [D EXCEPT !.children[p] = Append(@, c), !.parent[c] = p]

\* -------------------------------------------------------- duplicate table

\* const key = child.geometry.uuid + child.material?.name ?? '' (line 48): the
\* sum binds tighter than ??, so a mesh without material gets uuid + "undefined".
\* A uuid has a fixed length, so the pair stands for the concatenation.
keyOf(o) ==
  <<node[o].geometry, IF node[o].hasMaterial THEN node[o].material ELSE Undefined>>

\* obj.geometry.uuid + obj.material.name (lines 226, 367), used where a material exists.
lookupKey(o) == <<node[o].geometry, node[o].material>>

hasKey(table, key) == \E i \in 1 .. Len(table) : table[i].key = key

entry(table, key) == table[CHOOSE i \in 1 .. Len(table) : table[i].key = key]

\* attempt + index (line 28): the decimal digits of index appended.
withIndex(attempt, index) == IF index > 0 THEN attempt \o <<Digit(index)>> ELSE attempt

uniqueNameUnchecked(table, attempt, index) == withIndex(attempt, index)

RECURSIVE uniqueName(_, _, _)
uniqueName(table, attempt, index) ==
  LET newAttempt == withIndex(attempt, index)
  IN IF \A i \in 1 .. Len(table) : table[i].name # newAttempt THEN newAttempt
     ELSE uniqueName(table, attempt, index + 1)

\* (child.name || 'Part').replace(/[^a-zA-Z]/g, ''), first letter upper-cased.
baseName(name) ==
  LET n0 == IF name = <<>> THEN Part ELSE name
      n1 == SelectSeq(n0, LAMBDA c : c \in Letters)
  IN IF n1 = <<>> THEN n1 ELSE <<ToUpperCase(n1[1])>> \o Tail(n1)

\* The callback of the third traversal (lines 45-62), applied to one object.
countGeometry(table, o) ==
  IF isMesh(o) /\ node[o].geometry # 0
  THEN IF ~hasKey(table, keyOf(o))
       THEN Append(table,
              [key |-> keyOf(o), count |-> 1,
               name |-> uniqueName(table, baseName(node[o].name), 0),
               node |-> <<"nodes">> \o sanitizeName(node[o].name)])
       ELSE [i \in 1 .. Len(table) |->
               IF table[i].key = keyOf(o)
               THEN [table[i] EXCEPT !.count = @ + 1] ELSE table[i]]
  ELSE table

RECURSIVE countGeometries(_, _)
countGeometries(table, s) ==
  IF s = <<>> THEN table
  ELSE countGeometries(countGeometry(table, Head(s)), Tail(s))

\* Prune duplicate geometries (lines 65-70).
pruneDuplicates(table) ==
  IF ~options.instanceall THEN SelectSeq(table, LAMBDA d : d.count # 1) ELSE table

\* ---------------------------------------------------------------- getInfo

instancedOf(o) ==
  /\ options.instance \/ options.instanceall
  /\ node[o].geometry # 0
  /\ node[o].hasMaterial
  /\ hasKey(duplicates, lookupKey(o))
  /\ entry(duplicates, lookupKey(o)).count > (IF options.instanceall THEN 0 ELSE 1)

getInfo(o) ==
  [type |-> getType(node[o].type),
   node |-> <<"nodes">> \o sanitizeName(node[o].name),
   instanced |-> instancedOf(o),
   animated |-> animations > 0]

\* ------------------------------------------------------------ handleProps

\* Numbers are radians (or plain quantities) counted in millionths, so that
\* the fifth and sixth decimals the formatter rounds at are there.

Abs(a) == IF a < 0 THEN -a ELSE a

RECURSIVE Pow10(_)
Pow10(n) == IF n = 0 THEN 1 ELSE 10 * Pow10(n - 1)

\* Math.round(a / b), b > 0: the nearest integer, a half going up.
MathRound(a, b) == (2 * a + b) \div (2 * b)

\* options.precision when the caller gave none.
NoPrecision == -1

\* Math.round(options.precision || 2) (line 79): 0 is falsy, as undefined is.
decimals == IF options.precision \in {NoPrecision, 0} THEN 2 ELSE options.precision

\* number.toFixed(p), as a count of 10^-p: the nearest, a half going away
\* from zero.
toFixed(number, p) ==
  LET m == MathRound(Abs(number), Pow10(6 - p))
  IN IF number < 0 THEN -m ELSE m

\* The first w decimals of f / 10^w without the trailing zeros.
RECURSIVE fraction(_, _)
fraction(f, w) ==
  IF w = 0 \/ f = 0 THEN ""
  ELSE ToString(f \div Pow10(w - 1)) \o fraction(f % Pow10(w - 1), w - 1)

\* How a template literal writes parseFloat of a toFixed(p) string whose
\* value is v / 10^p: no trailing zeros, no sign on zero.
numberToString(v, p) ==
  (IF v < 0 THEN "-" ELSE "") \o ToString(Abs(v) \div Pow10(p))
  \o (IF Abs(v) % Pow10(p) = 0 THEN "" ELSE "." \o fraction(Abs(v) % Pow10(p), p))

\* rNbr (lines 78-80), as written into the text.
rNbr(number) == numberToString(toFixed(number, decimals), decimals)

\* Math.round(parseFloat(Math.PI / i) * 100000), i = 1 .. 10 (line 85).
PiOver == <<314159, 157080, 104720, 78540, 62832, 52360, 44880, 39270, 34907, 31416>>

\* Math.round(parseFloat(Math.PI * i) * 100000), i = 1 .. 10 (line 89).
PiTimes ==
  <<314159, 628319, 942478, 1256637, 1570796, 1884956, 2199115, 2513274, 2827433,
    3141593>>

First(s, v) == CHOOSE i \in 1 .. Len(s) : s[i] = v /\ \A j \in 1 .. i - 1 : s[j] # v

\* rDeg (lines 82-93).
rDeg(number) ==
  LET abs == Abs(MathRound(number, 10))
      sign == IF number < 0 THEN "-" ELSE ""
  IN IF Contains(PiOver, abs)
     THEN sign \o "Math.PI"
          \o (IF First(PiOver, abs) > 1 THEN " / " \o ToString(First(PiOver, abs)) ELSE "")
     ELSE IF Contains(PiTimes, abs)
     THEN sign \o "Math.PI"
          \o (IF First(PiTimes, abs) > 1 THEN " * " \o ToString(First(PiTimes, abs)) ELSE "")
     ELSE rNbr(number)

\* A rotation of q quarter turns, in millionths of a radian.
QuarterTurn == 1570796

Radians(q) == q * QuarterTurn

\* The syntax the serializer writes a bound attribute in: :key="value".
propSyntax == "bind"

\* rNbr(obj.position.length()) (line 191): a position is written unless it is
\* the origin.
alwaysPosition(G, o) == TRUE

hasPosition(G, o) == G.position[o] # 0

\* The properties handleProps tests besides those every node of the model
\* carries; node[o].has is the set of them the object has, each with a value
\* that is not the default.
Optional ==
  {"zoom", "far", "near", "fov", "instanceColor", "skeleton", "castShadow",
   "receiveShadow", "morphTargetDictionary", "morphTargetInfluences", "angle",
   "penumbra", "decay", "distance", "up", "color"}

\* if (obj.<field> ...) result += ... for one optional property.
Opt(o, field, key, syn, val) ==
  IF field \in node[o].has THEN <<Attr(o, key, syn, val, <<>>)>> ELSE <<>>

isCamera(o) ==
  getType(node[o].type) \in {"TresPerspectiveCamera", "TresOrthographicCamera"}

\* Lines 147-155.
cameraProps(o) ==
  (IF isCamera(o)
   THEN <<Attr(o, "make-default", propSyntax, <<"false">>, <<>>)>>
        \o Opt(o, "zoom", "zoom", propSyntax, <<"2">>)
        \o Opt(o, "far", "far", propSyntax, <<"1000">>)
        \o Opt(o, "near", "near", propSyntax, <<"1">>)
   ELSE <<>>)
  \o (IF getType(node[o].type) = "TresPerspectiveCamera"
      THEN Opt(o, "fov", "fov", propSyntax, <<"45">>) ELSE <<>>)

handleProps(G, o) ==
  LET info == getInfo(o)
      nm == sanitizeName(node[o].name)
      plain ==
        (IF info.type = "mesh" /\ options.shadows
         THEN <<Attr(o, "cast-shadow", "flag", <<>>, <<>>),
                Attr(o, "receive-shadow", "flag", <<>>, <<>>)>> ELSE <<>>)
        \o (IF node[o].geometry # 0 /\ ~isInstancedMesh(o)
            THEN <<Attr(o, "geometry", propSyntax, <<"nodes">> \o nm \o <<".geometry">>, <<>>)>>
            ELSE <<>>)
        \o (IF node[o].hasMaterial /\ ~isInstancedMesh(o)
            THEN IF node[o].material # <<>>
                 THEN <<Attr(o, "material", propSyntax,
                             <<"materials">> \o sanitizeName(node[o].material), <<>>)>>
                 ELSE <<Attr(o, "material", propSyntax,
                             <<"nodes">> \o nm \o <<".material">>, <<>>)>>
            ELSE <<>>)
        \o (IF isInstancedMesh(o)
            THEN <<Attr(o, "instance-matrix", propSyntax,
                        <<"nodes">> \o nm \o <<".instanceMatrix">>, <<>>)>>
            ELSE <<>>)
        \o Opt(o, "instanceColor", "instance-color", propSyntax,
               <<"nodes">> \o nm \o <<".instanceColor">>)
        \o Opt(o, "skeleton", "skeleton", propSyntax, <<"nodes">> \o nm \o <<".skeleton">>)
        \o (IF ~node[o].visible
            THEN <<Attr(o, "visible", propSyntax, <<"false">>, <<>>)>> ELSE <<>>)
        \o Opt(o, "castShadow", "cast-shadow", "flag", <<>>)
        \o Opt(o, "receiveShadow", "receive-shadow", "flag", <<>>)
        \o Opt(o, "morphTargetDictionary", "morph-target-dictionary", propSyntax,
               <<"nodes">> \o nm \o <<".morphTargetDictionary">>)
        \o Opt(o, "morphTargetInfluences", "morph-target-influences", propSyntax,
               <<"nodes">> \o nm \o <<".morphTargetInfluences">>)
        \o (IF node[o].intensity # 0
            THEN <<Attr(o, "intensity", propSyntax,
                        <<ToString(node[o].intensity)>>, <<node[o].intensity>>)>>
            ELSE <<>>)
        \o Opt(o, "angle", "angle", propSyntax, <<rDeg(node[o].angle)>>)
        \o Opt(o, "penumbra", "penumbra", propSyntax, <<"1">>)
        \o Opt(o, "decay", "decay", propSyntax, <<"2">>)
        \o Opt(o, "distance", "distance", propSyntax, <<"1">>)
        \o Opt(o, "up", "up", propSyntax, <<"[", "0", ", ", "0", ", ", "1", "]">>)
  IN cameraProps(o)
     \o (IF ~info.instanced THEN plain ELSE <<>>)
     \o Opt(o, "color", "color", "plain", <<"#", "ff0000">>)
     \o (IF hasPosition(G, o)
         THEN <<Attr(o, "position", propSyntax,
                     <<"[", ToString(G.position[o]), ", ", "0", ", ", "0", "]">>,
                     <<G.position[o]>>)>>
         ELSE <<>>)
     \o (IF G.rotation[o] # 0
         THEN <<Attr(o, "rotation", propSyntax,
                     <<"[", rDeg(Radians(G.rotation[o])), ", ", "0", ", ", "0", "]">>,
                     <<G.rotation[o]>>)>>
         ELSE <<>>)
     \o (IF G.scale[o] # 1
         THEN <<Attr(o, "scale", propSyntax, <<ToString(G.scale[o])>>, <<G.scale[o]>>)>>
         ELSE <<>>)
     \o (IF options.meta /\ node[o].userData
         THEN <<Attr(o, "user-data", "json", <<"{..}">>, <<>>)>> ELSE <<>>)

\* [...text.matchAll(/([a-z-A-Z]*)={([a-zA-Z0-9\.\[\]\-\,\ \/]*)}/g)] (lines
\* 255-258): the attributes written as key={value}, in order.
matchAll(text) == SelectSeq(text, LAMBDA t : t.k = "attr" /\ t.syn = "jsx")

keysOf(text) == [i \in 1 .. Len(matchAll(text)) |-> matchAll(text)[i].key]

equalOrNegated(a, b) == a = b \/ a = -b

\* ------------------------------------------------------------ prune, print
\* G is the graph with two more fields: err, the node at which an exception
\* was raised (NoNode if none; once raised, nothing more is evaluated), and
\* hits, the nodes for which prune returned a replacement.

Threaded(g) == [err |-> NoNode, hits |-> {}, fired |-> {}] @@ g

Unthreaded(G) == [f \in DOMAIN G \ {"err", "hits", "fired"} |-> G[f]]

Hit(G, o) == [G EXCEPT !.hits = @ \cup {o}]

\* The rules of prune, by the words of their debug messages.
Rules ==
  {"empty", "double negative rotation", "double negative rotation w/ props",
   "overlap", "lack of content"}

Fire(G, o, rule, child, own, first) ==
  [Hit(G, o) EXCEPT
     !.fired = @ \cup {[node |-> o, rule |-> rule, child |-> child,
                        own |-> own, first |-> first]}]

\* The keys of the attributes of a text, whatever their syntax.
allKeys(text) ==
  LET a == SelectSeq(text, LAMBDA t : t.k = "attr")
  IN [i \in 1 .. Len(a) |-> a[i].key]

\* keys1.forEach((key) => obj.children[0][key].copy(obj[key])) (line 309).
copyKeys(G, keys, from, to) ==
  [G EXCEPT
     !.position[to] = IF Contains(keys, "position") THEN G.position[from] ELSE @,
     !.rotation[to] = IF Contains(keys, "rotation") THEN G.rotation[from] ELSE @,
     !.scale[to] = IF Contains(keys, "scale") THEN G.scale[from] ELSE @]

\* The nodes of obj's traversal that are no group (lines 323-327).
notGroups(G, o) ==
  SelectSeq(traverse(G, o),
            LAMBDA x : getType(node[x].type) # "group" /\ getType(node[x].type) # "object3D")

\* empty.forEach((child) => (child.__removed = true)) (line 330).
markAll(G, s) == [G EXCEPT !.removed = [x \in DOMAIN @ |-> @[x] \/ Contains(s, x)]]

tagOf(o) ==
  IF instancedOf(o) THEN <<"instances.">> \o entry(duplicates, lookupKey(o)).name
  ELSE IF isInstancedMesh(o) THEN <<"TresInstancedMesh">>
  ELSE IF getType(node[o].type) = "bone" THEN <<"TresPrimitive">>
  ELSE <<getTresType(getType(node[o].type))>>

\* The closing tag print writes (lines 397-398).
closeTagOf(o) ==
  IF getType(node[o].type) = "bone" THEN <<"TresPrimitive">>
  ELSE <<getTresType(getType(node[o].type))>>

\* The text of the opening tag up to oldResult (lines 366-385).
openTag(o) ==
  LET nm == sanitizeName(node[o].name)
      info == getInfo(o)
  IN <<Open(o, tagOf(o))>>
     \o (IF ~info.instanced /\ isInstancedMesh(o)
         THEN <<Attr(o, "args", propSyntax,
                  <<"[", "nodes">> \o nm \o <<".geometry", ", ">>
                  \o (IF node[o].material # <<>>
                      THEN <<"materials">> \o sanitizeName(node[o].material)
                      ELSE <<"nodes">> \o nm \o <<".material">>)
                  \o <<", ", "nodes">> \o nm \o <<".count", "]">>, <<>>)>>
         ELSE IF ~info.instanced /\ info.type = "bone"
         THEN <<Attr(o, "object", propSyntax, <<"nodes">> \o nm, <<>>)>>
         ELSE <<>>)
     \o (IF node[o].name # <<>>
            /\ (options.keepnames \/ "morphTargetDictionary" \in node[o].has \/ info.animated)
         THEN <<Attr(o, "name", "plain", node[o].name, <<>>)>> ELSE <<>>)

\* obj.material.name of an instanced mesh without material (line 372).
throwsAt(o) == ~instancedOf(o) /\ isInstancedMesh(o) /\ ~node[o].hasMaterial

\* result === oldResult || obj.children.length === 0 (line 246).
isEmptyGroup(G, o, result, oldResult) ==
  result = oldResult \/ Len(G.children[o]) = 0

\* The guard of prune (line 239).
mayPruneKeptGroups(G, o) ==
  /\ ~G.removed[o]
  /\ ~getInfo(o).animated
  /\ getInfo(o).type \in {"group", "scene"}

mayPruneAnyType(G, o) ==
  /\ ~G.removed[o]
  /\ ~options.keepgroups
  /\ ~getInfo(o).animated

mayPrune(G, o) ==
  /\ ~G.removed[o]
  /\ ~options.keepgroups
  /\ ~getInfo(o).animated
  /\ getInfo(o).type \in {"group", "scene"}

RECURSIVE print(_, _), printEach(_, _, _), prune(_, _, _, _, _),
          pruneRules(_, _, _, _, _, _, _)

printFirstOnly(G, s, acc) ==
  IF s = <<>> \/ G.err # NoNode THEN [text |-> acc, G |-> G]
  ELSE LET r == print(G, Head(s)) IN [text |-> acc \o r.text, G |-> r.G]

printEach(G, s, acc) ==
  IF s = <<>> \/ G.err # NoNode THEN [text |-> acc, G |-> G]
  ELSE LET r == print(G, Head(s)) IN printEach(r.G, Tail(s), acc \o r.text)

pruneRules(G, o, children, result, oldResult, first, firstProps) ==
  LET type == getInfo(o).type
      keys1 == keysOf(result)
      keys2 == keysOf(firstProps)
      own == allKeys(SubSeq(result, Len(oldResult) + 1, Len(result)))
      isChildTransformed ==
        Contains(keys2, "position") \/ Contains(keys2, "rotation") \/ Contains(keys2, "scale")
      hasOtherProps ==
        \E i \in 1 .. Len(keys1) : keys1[i] \notin {"position", "scale", "rotation"}
      cancels ==
        /\ Len(G.children[o]) = 1
        /\ getType(node[first].type) = type
        /\ equalOrNegated(G.rotation[o], G.rotation[first])
  IN IF ~mayPrune(G, o)
     THEN [pruned |-> FALSE, text |-> <<>>, G |-> G]
     ELSE IF isEmptyGroup(G, o, result, oldResult)
     THEN [pruned |-> TRUE, text |-> children,
           G |-> Fire([G EXCEPT !.removed[o] = TRUE], o, "empty", NoNode, own, <<>>)]
     ELSE IF cancels /\ Len(keys1) = 1 /\ Len(keys2) = 1
             /\ keys1[1] = "rotation" /\ keys2[1] = "rotation"
     THEN LET r == printEach([G EXCEPT !.removed[o] = TRUE, !.removed[first] = TRUE],
                             G.children[first], <<>>)
          IN [pruned |-> TRUE, text |-> r.text,
              G |-> Fire(r.G, o, "double negative rotation", first, own, allKeys(firstProps))]
     ELSE IF cancels /\ Len(keys1) = 1 /\ Len(keys2) > 1
             /\ keys1[1] = "rotation" /\ Contains(keys2, "rotation")
     THEN LET r == print([G EXCEPT !.removed[o] = TRUE, !.rotation[first] = 0], first)
          IN [pruned |-> TRUE, text |-> r.text,
              G |-> Fire(r.G, o, "double negative rotation w/ props", first, own,
                         allKeys(firstProps))]
     ELSE IF Len(G.children[o]) = 1 /\ ~G.removed[first]
             /\ ~isChildTransformed /\ ~hasOtherProps
     THEN LET r == print(copyKeys(G, keys1, o, first), first)
          IN [pruned |-> TRUE, text |-> r.text,
              G |-> Fire([r.G EXCEPT !.removed[o] = TRUE], o, "overlap", first, own,
                         allKeys(firstProps))]
     ELSE IF notGroups(G, o) = <<>>
     THEN [pruned |-> TRUE, text |-> <<>>,
           G |-> Fire(markAll(G, notGroups(G, o)), o, "lack of content", NoNode, own,
                      <<>>)]
     ELSE [pruned |-> FALSE, text |-> <<>>, G |-> G]

\* prune (lines 236-335): first is obj.children[0] and firstProps its
\* attributes (lines 253-254), read by the rules that look at the child.
prune(G, o, children, result, oldResult) ==
  pruneRules(G, o, children, result, oldResult,
             G.children[o][1], handleProps(G, G.children[o][1]))

print(G, o) ==
  IF G.err # NoNode THEN [text |-> <<>>, G |-> G]
  ELSE IF G.removed[o] /\ Len(G.children[o]) > 0
  THEN printEach(G, G.children[o], <<>>)
  ELSE IF ~options.bones /\ getType(node[o].type) = "bone"
  THEN [text |-> <<Open(o, <<"TresPrimitive">>),
                   Attr(o, "object", propSyntax,
                        <<"nodes">> \o sanitizeName(node[o].name), <<>>),
                   TagEnd(o, "/>")>>,
        G |-> G]
  ELSE LET c == printEach(G, G.children[o], <<>>)
       IN IF c.G.err # NoNode THEN [text |-> <<>>, G |-> c.G]
          ELSE IF throwsAt(o) THEN [text |-> <<>>, G |-> [c.G EXCEPT !.err = o]]
          ELSE LET oldResult == openTag(o)
                   result == oldResult \o handleProps(c.G, o)
                   pruned == prune(c.G, o, c.text, result, oldResult)
               IN IF pruned.G.err # NoNode THEN [text |-> <<>>, G |-> pruned.G]
                  ELSE IF pruned.pruned THEN [text |-> pruned.text, G |-> pruned.G]
                  ELSE [text |->
                          IF Len(c.text) > 0
                          THEN result \o <<TagEnd(o, ">")>> \o c.text
                               \o <<Close(closeTagOf(o))>>
                          ELSE result \o <<TagEnd(o, "/>")>>,
                        G |-> c.G]

\* ------------------------------------------------------------- the steps

flattenInPlace(G, o) ==
  IF isMesh(o)
  THEN LET w == matrixWorld(G, o)
       IN [G EXCEPT !.position[o] = w.position,
                    !.rotation[o] = w.rotation,
                    !.scale[o] = w.scale]
  ELSE G

\* The body of the flatten loop (lines 440-457) for one object.
flattenOne(G, o) ==
  IF isMesh(o)
  THEN LET w == matrixWorld(G, o)
           B == [G EXCEPT !.position[o] = w.position,
                          !.rotation[o] = w.rotation,
                          !.scale[o] = w.scale]
       IN IF B.parent[o] # Root THEN add(B, Root, o) ELSE B
  ELSE G

RECURSIVE flatten(_, _)
flatten(G, s) == IF s = <<>> THEN G ELSE flatten(flattenOne(G, Head(s)), Tail(s))

\* while (parent && parent.__removed) parent = parent.parent (line 471).
RECURSIVE liveParent(_, _)
liveParent(G, p) ==
  IF p # NoNode /\ G.removed[p] THEN liveParent(G, G.parent[p]) ELSE p

RECURSIVE addEach(_, _, _)
addEach(G, p, s) == IF s = <<>> THEN G ELSE addEach(add(G, p, Head(s)), p, Tail(s))

\* The body of the re-parenting loop (lines 468-475) for one object.
reparentNone(G, o) == G

reparentOne(G, o) ==
  IF G.removed[o]
  THEN LET p0 == liveParent(G, G.parent[o])
           p == IF p0 = NoNode THEN Root ELSE p0
       IN addEach(G, p, G.children[o])
  ELSE G

RECURSIVE reparent(_, _)
reparent(G, s) == IF s = <<>> THEN G ELSE reparent(reparentOne(G, Head(s)), Tail(s))

removeNone(G, o) == G

\* The body of the removal loop (line 479) for one object.
removeOne(G, o) == IF G.removed[o] /\ G.parent[o] # NoNode THEN Detach(G, o) ELSE G

RECURSIVE removeDeleted(_, _)
removeDeleted(G, s) ==
  IF s = <<>> THEN G ELSE removeDeleted(removeOne(G, Head(s)), Tail(s))

Unset == [set |-> FALSE, text |-> <<>>]
NoOutput ==
  [returned |-> FALSE, error |-> NoNode, scene |-> <<>>, hasAnimations |-> FALSE,
   script |-> <<>>]

\* A statement of the script block: an import of names, or a const that
\* destructures names from a call.
Statement(k, names, call) == [k |-> k, names |-> names, call |-> call]

scriptSetupAnimated(hasAnimations) ==
  <<Statement("import", <<"useGLTF">>, ""),
    Statement("import", <<"useAnimations">>, ""),
    Statement("const", <<"nodes", "materials", "animations">>, "useGLTF"),
    Statement("const", <<"actions">>, "useAnimations")>>

\* The script block of the document (lines 544-549), for a model without
\* unlit materials (materialFixCode empty).
scriptSetup(hasAnimations) ==
  <<Statement("import", <<"useGLTF">>, "")>>
  \o (IF hasAnimations THEN <<Statement("import", <<"useAnimations">>, "")>> ELSE <<>>)
  \o <<Statement("const",
                 <<"nodes", "materials">>
                 \o (IF hasAnimations THEN <<"animations">> ELSE <<>>),
                 "useGLTF")>>
  \o (IF hasAnimations THEN <<Statement("const", <<"actions">>, "useAnimations")>> ELSE <<>>)

\* Lines 16-62: collect the objects, build the duplicate table.
Index ==
  /\ pc = "index"
  /\ objects' = traverse(graph, Root)
  /\ duplicates' = countGeometries(<<>>, traverse(graph, Root))
  /\ pc' = "duplicates"
  /\ UNCHANGED <<node, graph, options, animations, scene, output, thrown, calls,
                 input, before, hits, fired, texts, dry>>

\* Lines 64-70.
PruneDuplicates ==
  /\ pc = "duplicates"
  /\ duplicates' = pruneDuplicates(duplicates)
  /\ pc' = "flatten"
  /\ UNCHANGED <<node, graph, options, animations, objects, scene, output, thrown,
                 calls, input, before, hits, fired, texts, dry>>

\* Lines 438-459, and the test of line 463 that skips the dry run.
Flatten ==
  /\ pc = "flatten"
  /\ graph' = IF options.keepgroups THEN graph ELSE flatten(graph, objects)
  /\ pc' = IF options.keepgroups THEN "final" ELSE "dryrun"
  /\ UNCHANGED <<node, options, animations, objects, duplicates, scene, output,
                 thrown, calls, input, before, hits, fired, texts, dry>>

\* Line 465; an exception goes to the catch of line 484, then to line 487.
DryRun ==
  /\ pc = "dryrun"
  /\ LET r == print(Threaded(graph), Root)
     IN /\ graph' = Unthreaded(r.G)
        /\ hits' = r.G.hits
        /\ fired' = r.G.fired
        /\ thrown' = r.G.err
        /\ pc' = IF r.G.err # NoNode THEN "assemble" ELSE "reparent"
        /\ dry' = Unthreaded(r.G)
  /\ before' = graph.removed
  /\ UNCHANGED <<node, options, animations, objects, duplicates, scene, output,
                 calls, input, texts>>

\* Lines 467-476.
Reparent ==
  /\ pc = "reparent"
  /\ graph' = reparent(graph, objects)
  /\ pc' = "remove"
  /\ UNCHANGED <<node, options, animations, objects, duplicates, scene, output,
                 thrown, calls, input, before, hits, fired, texts, dry>>

\* Lines 478-480.
RemoveDeleted ==
  /\ pc = "remove"
  /\ graph' = removeDeleted(graph, objects)
  /\ pc' = "final"
  /\ UNCHANGED <<node, options, animations, objects, duplicates, scene, output,
                 thrown, calls, input, before, hits, fired, texts, dry>>

\* The final compile run on a copy of the graph: its marks are not kept.
FinalCompileOnCopy ==
  /\ pc = "final"
  /\ LET r == print(Threaded(graph), Root)
     IN /\ hits' = r.G.hits
        /\ fired' = r.G.fired
        /\ thrown' = r.G.err
        /\ scene' = IF r.G.err # NoNode THEN Unset ELSE [set |-> TRUE, text |-> r.text]
  /\ before' = graph.removed
  /\ pc' = "assemble"
  /\ UNCHANGED <<node, graph, options, animations, objects, duplicates, output, calls,
                 input, texts, dry>>

\* Line 483; an exception leaves scene unset.
FinalCompile ==
  /\ pc = "final"
  /\ LET r == print(Threaded(graph), Root)
     IN /\ graph' = Unthreaded(r.G)
        /\ hits' = r.G.hits
        /\ fired' = r.G.fired
        /\ thrown' = r.G.err
        /\ scene' = IF r.G.err # NoNode THEN Unset ELSE [set |-> TRUE, text |-> r.text]
  /\ before' = graph.removed
  /\ pc' = "assemble"
  /\ UNCHANGED <<node, options, animations, objects, duplicates, output, calls,
                 input, texts, dry>>

\* Lines 487-562: scene.includes (line 492) throws a TypeError on an unset
\* scene; otherwise the document is assembled and returned.
Assemble ==
  /\ pc = "assemble"
  /\ pc' = IF scene.set THEN "done" ELSE "thrown"
  /\ output' = IF scene.set
               THEN [returned |-> TRUE, error |-> NoNode, scene |-> scene.text,
                     hasAnimations |-> animations > 0,
                     script |-> scriptSetup(animations > 0)]
               ELSE NoOutput
  /\ texts' = IF scene.set THEN Append(texts, Render(scene.text)) ELSE texts
  /\ UNCHANGED <<node, graph, options, animations, objects, duplicates, scene,
                 thrown, calls, input, before, hits, fired, dry>>

\* parse called again on the same graph object, with the same options.
CallAgain ==
  /\ pc = "done"
  /\ calls < MaxCalls
  /\ calls' = calls + 1
  /\ pc' = "index"
  /\ objects' = <<>>
  /\ duplicates' = <<>>
  /\ scene' = Unset
  /\ output' = NoOutput
  /\ thrown' = NoNode
  /\ UNCHANGED <<node, graph, options, animations, input, before, hits, fired, texts, dry>>

Next ==
  \/ Index
  \/ PruneDuplicates
  \/ Flatten
  \/ DryRun
  \/ Reparent
  \/ RemoveDeleted
  \/ FinalCompile
  \/ Assemble
  \/ CallAgain

\* ------------------------------------------------------------- the inputs

DefaultOptions ==
  [keepgroups |-> FALSE, instance |-> FALSE, instanceall |-> FALSE, bones |-> FALSE,
   keepnames |-> FALSE, meta |-> FALSE, shadows |-> FALSE, precision |-> NoPrecision]

MkNode(type, name, geometry, hasMaterial, material) ==
  [type |-> type, name |-> name, geometry |-> geometry, hasMaterial |-> hasMaterial,
   material |-> material, visible |-> TRUE, intensity |-> 0, userData |-> FALSE,
   has |-> {}, angle |-> QuarterTurn]

Absent == MkNode("Group", <<>>, 0, FALSE, <<>>)

\* The node of the given type as the loader builds it: a mesh has its own
\* geometry and the material Red, a light an intensity.
Loaded(type, i) ==
  IF type \in MeshTypes THEN MkNode(type, <<"a", Digit(i)>>, i, TRUE, Red)
  ELSE IF type = "PointLight"
  THEN [MkNode(type, <<"a", Digit(i)>>, 0, FALSE, <<>>) EXCEPT !.intensity = 1]
  ELSE MkNode(type, <<"a", Digit(i)>>, 0, FALSE, <<>>)

\* The tree on 1 .. n in which pa[i] is the parent of i and children are in
\* increasing order.
MkGraph(n, pa, pos, rot, sc) ==
  [children |-> [p \in Nodes |->
                   SelectSeq([i \in 1 .. Max(n, 1) |-> i],
                             LAMBDA i : i > 1 /\ i <= n /\ pa[i] = p)],
   parent |-> [i \in Nodes |-> IF i > 1 /\ i <= n THEN pa[i] ELSE NoNode],
   position |-> [i \in Nodes |-> IF i <= n THEN pos[i] ELSE 0],
   rotation |-> [i \in Nodes |-> IF i <= n THEN rot[i] ELSE 0],
   scale |-> [i \in Nodes |-> IF i <= n THEN sc[i] ELSE 1],
   removed |-> [i \in Nodes |-> FALSE]]

Start(nd, g, opts, anim) ==
  /\ node = nd
  /\ graph = g
  /\ options = opts
  /\ animations = anim
  /\ objects = <<>>
  /\ duplicates = <<>>
  /\ scene = Unset
  /\ output = NoOutput
  /\ thrown = NoNode
  /\ pc = "index"
  /\ calls = 1
  /\ input = g
  /\ before = g.removed
  /\ hits = {}
  /\ fired = {}
  /\ texts = <<>>
  /\ dry = g

Trees(n) == {pa \in [2 .. n -> 1 .. n] : \A i \in 2 .. n : pa[i] < i}

\* Graphs of up to MaxNodes groups, meshes and lights under a scene or group
\* root, each node at the origin or moved by one along x.
Init ==
  \E n \in 1 .. MaxNodes :
    \E pa \in Trees(n) :
      \E ty \in [2 .. n -> {"Group", "Mesh", "PointLight"}] :
        \E rt \in {"Scene", "Group"} :
          \E pos \in [1 .. n -> {0, 1}] :
            \E kg \in BOOLEAN :
              Start([i \in Nodes |->
                       IF i = 1 THEN Loaded(rt, 1)
                       ELSE IF i <= n THEN Loaded(ty[i], i) ELSE Absent],
                    MkGraph(n, pa, pos, [i \in 1 .. n |-> 0], [i \in 1 .. n |-> 1]),
                    [DefaultOptions EXCEPT !.keepgroups = kg],
                    0)

Spec == Init /\ [][Next]_vars

\* A group with rotation a about x holding one group with rotation b, which
\* holds up to MaxGrand meshes, lights or groups.
InitRot ==
  \E k \in 0 .. MaxGrand :
    \E ty \in [4 .. 3 + k -> {"Group", "Mesh", "PointLight"}] :
      \E rt \in {"Scene", "Group"} :
        \E a \in {-1, 0, 1} :
          \E b \in {-1, 0, 1} :
            Start([i \in Nodes |->
                     IF i = 1 THEN Loaded(rt, 1)
                     ELSE IF i \in {2, 3} THEN Loaded("Group", i)
                     ELSE IF i <= 3 + k THEN Loaded(ty[i], i) ELSE Absent],
                  MkGraph(3 + k,
                          [i \in 2 .. 3 + k |-> IF i = 2 THEN 1 ELSE IF i = 3 THEN 2 ELSE 3],
                          [i \in 1 .. 3 + k |-> 0],
                          [i \in 1 .. 3 + k |-> IF i = 2 THEN a ELSE IF i = 3 THEN b ELSE 0],
                          [i \in 1 .. 3 + k |-> 1]),
                  DefaultOptions,
                  0)

SpecRot == InitRot /\ [][Next]_vars

InstancingModes ==
  {[DefaultOptions EXCEPT !.instance = i, !.instanceall = a] :
     i \in BOOLEAN, a \in BOOLEAN} \ {[DefaultOptions EXCEPT !.instance = TRUE, !.instanceall = TRUE]}

\* Up to MaxMeshes meshes under a scene root, given by their name, geometry
\* and material (has |-> FALSE: no material).
MeshGraph(m, nm, geo, mat, opts) ==
  Start([i \in Nodes |->
           IF i = 1 THEN Loaded("Scene", 1)
           ELSE IF i <= m + 1
           THEN MkNode("Mesh", nm[i], geo[i], mat[i].has, mat[i].name)
           ELSE Absent],
        MkGraph(m + 1, [i \in 2 .. m + 1 |-> 1], [i \in 1 .. m + 1 |-> 0],
                [i \in 1 .. m + 1 |-> 0], [i \in 1 .. m + 1 |-> 1]),
        opts,
        0)

Materials ==
  {[has |-> TRUE, name |-> Red], [has |-> TRUE, name |-> Undefined],
   [has |-> FALSE, name |-> <<>>]}

\* Meshes that share or do not share geometry and material, under each
\* instancing mode.
InitInst ==
  \E m \in 1 .. MaxMeshes :
    \E geo \in [2 .. m + 1 -> {1, 2}] :
      \E mat \in [2 .. m + 1 -> Materials] :
        \E opts \in InstancingModes :
          MeshGraph(m, [i \in 2 .. m + 1 |-> <<"a", Digit(i)>>], geo, mat, opts)

SpecInst == InitInst /\ [][Next]_vars

\* Meshes whose names collide once stripped and capitalised, under each
\* instancing mode.
InitNames ==
  \E m \in 1 .. MaxMeshes :
    \E geo \in [2 .. m + 1 -> {1, 2}] :
      \E nm \in [2 .. m + 1 -> {<<"a">>, <<"A">>, <<"1">>}] :
        \E opts \in InstancingModes :
          MeshGraph(m, nm, geo, [i \in 2 .. m + 1 |-> [has |-> TRUE, name |-> Red]], opts)

SpecNames == InitNames /\ [][Next]_vars

\* Graphs of up to MaxNodes nodes that may hold an instanced mesh without
\* material.
InitErr ==
  \E n \in 2 .. MaxNodes :
    \E pa \in Trees(n) :
      \E ty \in [2 .. n -> {"Group", "Mesh", "InstancedMesh"}] :
        \E hm \in [2 .. n -> BOOLEAN] :
          \E kg \in BOOLEAN :
            Start([i \in Nodes |->
                     IF i = 1 THEN Loaded("Scene", 1)
                     ELSE IF i <= n
                     THEN IF ty[i] = "InstancedMesh" /\ ~hm[i]
                          THEN MkNode(ty[i], <<"a", Digit(i)>>, i, FALSE, <<>>)
                          ELSE Loaded(ty[i], i)
                     ELSE Absent],
                  MkGraph(n, pa, [i \in 1 .. n |-> 0], [i \in 1 .. n |-> 0],
                          [i \in 1 .. n |-> 1]),
                  [DefaultOptions EXCEPT !.keepgroups = kg],
                  0)

SpecErr == InitErr /\ [][Next]_vars

\* A scene root with one child that has up to MaxProps of the optional
\* properties besides a geometry or an intensity, visible = false, a
\* transform and user data.
InitProps ==
  \E ty \in {"Group", "Mesh", "PointLight", "PerspectiveCamera", "OrthographicCamera"} :
    \E hs \in {h \in SUBSET Optional : Cardinality(h) <= MaxProps} :
      \E sh \in BOOLEAN :
        Start([i \in Nodes |->
                 IF i = 1 THEN Loaded("Scene", 1)
                 ELSE IF i = 2
                 THEN [Loaded(ty, 2) EXCEPT !.has = hs, !.visible = FALSE, !.userData = TRUE]
                 ELSE Absent],
              MkGraph(2, [i \in 2 .. 2 |-> 1], [i \in 1 .. 2 |-> i - 1],
                      [i \in 1 .. 2 |-> i - 1], [i \in 1 .. 2 |-> i]),
              [DefaultOptions EXCEPT !.shadows = sh, !.meta = TRUE],
              0)

SpecProps == InitProps /\ [][Next]_vars

\* Angles at and around the values the formatter compares with (on them,
\* within the tolerance, on its edges and just outside), of both signs, and
\* some with no relation to pi: 0.3, 1.234567, 0.005, 1.005.
Angles ==
  {sg * (10 * t + d) :
     sg \in {-1, 1}, t \in SeqToSet(PiOver) \cup SeqToSet(PiTimes), d \in {-6, -5, 0, 4, 5}}
  \cup {300000, -300000, 1234567, 5000, -5000, 1005000}

Precisions == {NoPrecision} \cup (0 .. MaxPrecision)

\* A scene root with one light that has an angle.
InitAngle ==
  \E x \in Angles :
    \E pr \in Precisions :
      Start([i \in Nodes |->
               IF i = 1 THEN Loaded("Scene", 1)
               ELSE IF i = 2
               THEN [Loaded("PointLight", 2) EXCEPT !.has = {"angle"}, !.angle = x]
               ELSE Absent],
            MkGraph(2, [i \in 2 .. 2 |-> 1], [i \in 1 .. 2 |-> 0],
                    [i \in 1 .. 2 |-> 0], [i \in 1 .. 2 |-> 1]),
            [DefaultOptions EXCEPT !.precision = pr],
            0)

SpecAngle == InitAngle /\ [][Next]_vars

\* Graphs of groups and meshes with up to MaxClips animation clips.
InitAnim ==
  \E n \in 1 .. MaxNodes :
    \E pa \in Trees(n) :
      \E ty \in [2 .. n -> {"Group", "Mesh"}] :
        \E clips \in 0 .. MaxClips :
          \E kn \in BOOLEAN :
            Start([i \in Nodes |->
                     IF i = 1 THEN Loaded("Scene", 1)
                     ELSE IF i <= n THEN Loaded(ty[i], i)
                     ELSE Absent],
                  MkGraph(n, pa, [i \in 1 .. n |-> 0], [i \in 1 .. n |-> 0],
                          [i \in 1 .. n |-> 1]),
                  [DefaultOptions EXCEPT !.keepnames = kn],
                  clips)

SpecAnim == InitAnim /\ [][Next]_vars

\* Graphs of up to MaxNodes nodes of every kind under a scene root, all at
\* the origin or all at position 1, with bones kept or not.
InitKinds ==
  \E n \in 2 .. MaxNodes :
    \E pa \in Trees(n) :
      \E ty \in [2 .. n -> Types \ {"Scene", "OrthographicCamera"}] :
        \E at \in {0, 1} :
          \E bn \in BOOLEAN :
            Start([i \in Nodes |->
                     IF i = 1 THEN Loaded("Scene", 1)
                     ELSE IF i <= n THEN Loaded(ty[i], i)
                     ELSE Absent],
                  MkGraph(n, pa, [i \in 1 .. n |-> IF i = 1 THEN 0 ELSE at],
                          [i \in 1 .. n |-> 0], [i \in 1 .. n |-> 1]),
                  [DefaultOptions EXCEPT !.bones = bn],
                  0)

SpecKinds == InitKinds /\ [][Next]_vars

\* Graphs of up to MaxNodes meshes, instanced meshes, bones and lights nested
\* in any way under a scene root, the meshes sharing one geometry and one
\* material, under each instancing mode and with bones kept or not.
InitNest ==
  \E n \in 2 .. MaxNodes :
    \E pa \in Trees(n) :
      \E ty \in [2 .. n -> {"Mesh", "InstancedMesh", "Bone", "PointLight"}] :
        \E opts \in InstancingModes :
          \E bn \in BOOLEAN :
            Start([i \in Nodes |->
                     IF i = 1 THEN Loaded("Scene", 1)
                     ELSE IF i <= n
                     THEN IF ty[i] \in MeshTypes
                          THEN MkNode(ty[i], <<"a", Digit(i)>>, 1, TRUE, Red)
                          ELSE Loaded(ty[i], i)
                     ELSE Absent],
                  MkGraph(n, pa, [i \in 1 .. n |-> 0], [i \in 1 .. n |-> 0],
                          [i \in 1 .. n |-> 1]),
                  [opts EXCEPT !.bones = bn],
                  0)

SpecNest == InitNest /\ [][Next]_vars

\* ------------------------------------------------------ reading the text

\* The indices of the elements open at token i: "<" opens one, "/>" and a
\* closing tag close the innermost.
RECURSIVE StackAt(_, _)
StackAt(text, i) ==
  IF i = 1 THEN <<>>
  ELSE LET st == StackAt(text, i - 1)
           t == text[i - 1]
       IN IF t.k = "<" THEN Append(st, i - 1)
          ELSE IF t.k \in {"/>", "</"} /\ st # <<>> THEN SubSeq(st, 1, Len(st) - 1)
          ELSE st

Opens(text) == {i \in 1 .. Len(text) : text[i].k = "<"}

OpensOf(text, n) == {i \in Opens(text) : text[i].node = n}

\* The attributes written in the opening tag that starts at token i.
RECURSIVE AttrsFrom(_, _)
AttrsFrom(text, i) ==
  IF i > Len(text) \/ text[i].k # "attr" THEN <<>>
  ELSE <<text[i]>> \o AttrsFrom(text, i + 1)

AttrsOf(text, i) == AttrsFrom(text, i + 1)

HasAttr(text, i, key) == \E j \in 1 .. Len(AttrsOf(text, i)) : AttrsOf(text, i)[j].key = key

AttrNum(text, i, key, default) ==
  IF HasAttr(text, i, key)
  THEN LET as == AttrsOf(text, i)
       IN as[CHOOSE j \in 1 .. Len(as) : as[j].key = key].num[1]
  ELSE default

\* The transform the framework gives the element that opens at token i.
ElementTransform(text, i) ==
  [position |-> AttrNum(text, i, "position", 0),
   rotation |-> AttrNum(text, i, "rotation", 0),
   scale |-> AttrNum(text, i, "scale", 1)]

RECURSIVE ComposeAll(_, _)
ComposeAll(text, st) ==
  IF st = <<>> THEN Identity
  ELSE Compose(ComposeAll(text, SubSeq(st, 1, Len(st) - 1)),
               ElementTransform(text, st[Len(st)]))

\* The accumulated transform of the element that opens at token i.
Accumulated(text, i) ==
  Compose(ComposeAll(text, StackAt(text, i)), ElementTransform(text, i))

IsGroupNode(n) == getType(node[n].type) \in {"group", "scene"}

Reachable(g) == SeqToSet(traverse(g, Root))

\* ------------------------------------------------------------------ claims

\* C1: with pruning enabled and no animations, every non-group node emitted
\* in the final markup has the accumulated transform it has in the input graph.
C1_TransformsPreserved ==
  (pc = "done" /\ calls = 1 /\ ~options.keepgroups /\ animations = 0) =>
    \A i \in Opens(output.scene) :
      ~IsGroupNode(output.scene[i].node) =>
        Accumulated(output.scene, i) = matrixWorld(input, output.scene[i].node)

\* C2: root -> group A (default transform) -> mesh M (own geometry, material
\* Red), all at the default transform, under the default configuration: M is
\* emitted exactly once, outside every other element of the scene text (so
\* directly in the wrapper the document puts around it), A is not emitted, M
\* refers to the material Red and has no position, rotation or scale.
C2_Graph ==
  /\ input.children[1] = <<2>> /\ input.children[2] = <<3>> /\ input.children[3] = <<>>
  /\ node[1].type \in {"Scene", "Group"}
  /\ node[2].type = "Group"
  /\ node[3].type = "Mesh" /\ node[3].geometry # 0
  /\ node[3].hasMaterial /\ node[3].material = Red
  /\ \A i \in 1 .. 3 : Local(input, i) = Identity
  /\ options = DefaultOptions
  /\ animations = 0

C2_EndToEnd ==
  (pc = "done" /\ calls = 1 /\ C2_Graph) =>
    /\ Cardinality(OpensOf(output.scene, 3)) = 1
    /\ OpensOf(output.scene, 2) = {}
    /\ \A i \in OpensOf(output.scene, 3) :
         /\ StackAt(output.scene, i) = <<>>
         /\ \E j \in 1 .. Len(AttrsOf(output.scene, i)) :
              /\ AttrsOf(output.scene, i)[j].key = "material"
              /\ AttrsOf(output.scene, i)[j].val = <<"materials", ".", "R", "e", "d">>
         /\ ~HasAttr(output.scene, i, "position")
         /\ ~HasAttr(output.scene, i, "rotation")
         /\ ~HasAttr(output.scene, i, "scale")

C2_Witness ==
  /\ pc = "done" /\ calls = 1 /\ C2_Graph
  /\ Cardinality(OpensOf(output.scene, 3)) = 1

\* C3: a group with rotation (-pi/2,0,0) whose only child is a group with
\* rotation (pi/2,0,0), neither with another attribute: the final markup has
\* no element for the parent group and none for the child group, whatever the
\* number of grandchildren.
C3_Graph ==
  /\ input.children[2] = <<3>>
  /\ node[2].type = "Group" /\ node[3].type = "Group"
  /\ input.rotation[2] = -1 /\ input.rotation[3] = 1
  /\ input.position[2] = 0 /\ input.position[3] = 0
  /\ input.scale[2] = 1 /\ input.scale[3] = 1
  /\ ~options.keepgroups /\ ~options.keepnames /\ ~options.meta /\ animations = 0

C3_RotationCancellation ==
  (pc = "done" /\ calls = 1 /\ C3_Graph) =>
    /\ OpensOf(output.scene, 2) = {}
    /\ OpensOf(output.scene, 3) = {}

\* C4 as stated: once the dry run and the re-parenting pass are done, the
\* final compile finds no applicable rule: it marks no further node removed
\* and replaces no node's text.
C4_FinalCompileFindsNothing ==
  (pc = "assemble" /\ thrown = NoNode /\ ~options.keepgroups) =>
    /\ graph.removed = before
    /\ hits = {}

\* C4 as amended: the final compile may still apply rules, but running print
\* again over the tree it leaves (the dry run of a second call on the same
\* graph) marks no further node removed.
C4_RerunMarksNothing ==
  (pc = "reparent" /\ calls >= 2) => graph.removed = before

C4_Witness ==
  /\ pc = "reparent" /\ calls = 2
  /\ \E n \in Reachable(graph) \ {Root} : graph.removed[n]

\* C5: any two nodes emitted in the final markup appear in it in the order
\* of the pre-order traversal of the graph as it was given.
Preorder(n) == IndexOf(traverse(input, Root), n)

C5_OrderPreserved ==
  (pc = "done" /\ calls = 1) =>
    \A i, j \in Opens(output.scene) :
      i < j => Preorder(output.scene[i].node) <= Preorder(output.scene[j].node)

\* The (geometry identity, material name) signature of a mesh, the name being
\* empty when the mesh has no material.
Signature(o) ==
  <<node[o].geometry, IF node[o].hasMaterial THEN node[o].material ELSE <<>>>>

MeshesOf(g) == {o \in Reachable(g) : isMesh(o) /\ node[o].geometry # 0}

IsInstancedReference(text, i) == text[i].tag[1] = "instances."

\* C7: under sparse instancing, a mesh whose signature no other mesh of the
\* graph has is emitted as a normal element; meshes that share a signature
\* are all emitted as instanced references with one and the same name.
C7_SparseThreshold ==
  (pc = "done" /\ calls = 1 /\ options.instance /\ ~options.instanceall) =>
    \A o \in MeshesOf(input) :
      LET same == {p \in MeshesOf(input) : Signature(p) = Signature(o)}
      IN /\ OpensOf(output.scene, o) # {}
         /\ \A i \in OpensOf(output.scene, o) :
              IF Cardinality(same) = 1
              THEN ~IsInstancedReference(output.scene, i)
              ELSE /\ IsInstancedReference(output.scene, i)
                   /\ \A p \in same : \A j \in OpensOf(output.scene, p) :
                        output.scene[j].tag = output.scene[i].tag

\* C8: the names of the records of the duplicate table are pairwise distinct,
\* in every state of the table: as the indexer leaves it and once the records
\* of count 1 have been dropped.
C8_NamesDistinct ==
  \A i, j \in 1 .. Len(duplicates) :
    i # j => /\ duplicates[i].key # duplicates[j].key
             /\ duplicates[i].name # duplicates[j].name

\* Two meshes of different keys whose base names collide both have a record,
\* before the records of count 1 are dropped and after.
C8_Collision ==
  \E p, q \in MeshesOf(graph) :
    /\ keyOf(p) # keyOf(q)
    /\ baseName(node[p].name) = baseName(node[q].name)
    /\ hasKey(duplicates, keyOf(p)) /\ hasKey(duplicates, keyOf(q))

C8_Witness == pc = "flatten" /\ C8_Collision

\* C9: a call in which print threw returns an error result that names the
\* node print threw at, and never reaches the assembly of the document with
\* the markup text unset.
C9_TaggedErrorResult ==
  /\ (pc = "assemble" => scene.set)
  /\ (thrown # NoNode /\ pc \in {"done", "thrown"}) =>
       /\ pc = "done"
       /\ output.returned
       /\ output.error = thrown

\* C10: with keepgroups set the graph stays as it was given (parents, child
\* lists, transforms, no removed marker), no pruning rule replaces a node's
\* text, and every node is emitted once, with the accumulated transform it
\* has in the graph.
C10_KeepGroups ==
  options.keepgroups =>
    /\ graph = input
    /\ \A n \in Nodes : ~graph.removed[n]
    /\ hits = {}
    /\ pc = "done" =>
         \A n \in Reachable(input) :
           /\ Cardinality(OpensOf(output.scene, n)) = 1
           /\ \A i \in OpensOf(output.scene, n) :
                Accumulated(output.scene, i) = matrixWorld(input, n)

C10_Witness ==
  /\ pc = "done" /\ options.keepgroups
  /\ \E n \in Reachable(graph) \ {Root} :
       /\ IsGroupNode(n)
       /\ graph.position[n] # 0
       /\ graph.children[n] # <<>>
       /\ OpensOf(output.scene, n) # {}

\* The group of the serializer's ordering an attribute belongs to: camera
\* block, references, flags, light parameters, color, transform, user data.
PropGroup(key) ==
  CASE key \in {"make-default", "zoom", "far", "near", "fov"} -> 1
    [] key \in {"geometry", "material", "instance-matrix", "instance-color"} -> 2
    [] key \in {"skeleton", "visible", "cast-shadow", "receive-shadow",
                "morph-target-dictionary", "morph-target-influences"} -> 3
    [] key \in {"intensity", "angle", "penumbra", "decay", "distance", "up"} -> 4
    [] key = "color" -> 5
    [] key \in {"position", "rotation", "scale"} -> 6
    [] key = "user-data" -> 7
    [] OTHER -> 0

\* The attributes handleProps wrote in the element that opens at token i.
Serialized(text, i) == SelectSeq(AttrsOf(text, i), LAMBDA t : PropGroup(t.key) # 0)

\* C11: in every element of the final markup the serializer's attributes
\* come group by group: no attribute of a later group before one of an
\* earlier group.
C11_AttributeOrder ==
  pc = "done" =>
    \A i \in Opens(output.scene) :
      LET a == Serialized(output.scene, i)
      IN \A x, y \in 1 .. Len(a) : x < y => PropGroup(a[x].key) <= PropGroup(a[y].key)

\* The value written for the attribute key of the element that opens at i.
AttrVal(text, i, key) ==
  LET as == AttrsOf(text, i)
  IN as[CHOOSE j \in 1 .. Len(as) : as[j].key = key].val

\* The precision the caller configured, 2 when none was given.
Configured == IF options.precision = NoPrecision THEN 2 ELSE options.precision

\* The form the angle formatter is to return for x: sign and pi / n if |x|
\* rounded to 5 decimals is pi / n rounded to 5 decimals for an n of 1 .. 10,
\* else sign and pi * n likewise, else x rounded to the configured precision.
AngleForm(x) ==
  LET a == MathRound(Abs(x), 10)
      sign == IF x < 0 THEN "-" ELSE ""
  IN IF \E n \in 1 .. 10 : a = PiOver[n]
     THEN LET n == CHOOSE n \in 1 .. 10 : a = PiOver[n]
          IN sign \o "Math.PI" \o (IF n > 1 THEN " / " \o ToString(n) ELSE "")
     ELSE IF \E n \in 1 .. 10 : a = PiTimes[n]
     THEN LET n == CHOOSE n \in 1 .. 10 : a = PiTimes[n]
          IN sign \o "Math.PI" \o (IF n > 1 THEN " * " \o ToString(n) ELSE "")
     ELSE numberToString(toFixed(x, Configured), Configured)

\* C12: the angle written for a node is the symbolic form pi / n or pi * n
\* when the angle is within the 5-decimal tolerance of it, and the angle
\* rounded to the configured precision otherwise.
C12_AngleFormatter ==
  pc = "done" =>
    \A o \in Reachable(input) : \A i \in OpensOf(output.scene, o) :
      HasAttr(output.scene, i, "angle") =>
        AttrVal(output.scene, i, "angle") = <<AngleForm(node[o].angle)>>

Statements(k, name) ==
  {i \in 1 .. Len(output.script) :
     output.script[i].k = k /\ Contains(output.script[i].names, name)}

Mentions(name) ==
  {i \in 1 .. Len(output.script) :
     Contains(output.script[i].names, name) \/ output.script[i].call = name}

\* C13: the document imports and calls the animation hook and destructures
\* animations from the loader result exactly when there is an animation
\* clip; without clips it destructures exactly nodes, materials and has no
\* mention of the hook.
C13_AnimationHook ==
  pc = "done" =>
    /\ animations > 0 <=> Statements("import", "useAnimations") # {}
    /\ animations > 0 <=> \E i \in 1 .. Len(output.script) : output.script[i].call = "useAnimations"
    /\ animations > 0 <=>
         \E i \in Statements("const", "animations") : output.script[i].call = "useGLTF"
    /\ animations = 0 =>
         /\ Mentions("useAnimations") = {}
         /\ \A i \in 1 .. Len(output.script) :
              output.script[i].call = "useGLTF" =>
                output.script[i].names = <<"nodes", "materials">>
    /\ \E i \in 1 .. Len(output.script) : output.script[i].call = "useGLTF"

C13_Witness ==
  /\ pc = "done" /\ animations > 0
  /\ Statements("import", "useAnimations") # {}

\* C14 as stated: when the final compile starts, no node reachable from the
\* root carries the removed marker, the root included.
C14_NoRemovedNodeInTree ==
  (pc = "final" /\ ~options.keepgroups) =>
    \A n \in Reachable(graph) : ~graph.removed[n]

\* C14 as amended: when the final compile starts, no node reachable from the
\* root other than the root itself carries the removed marker, and every
\* other node that carries it has no parent and is in no child list.
C14_NoRemovedNodeBelowRoot ==
  (pc = "final" /\ ~options.keepgroups) =>
    /\ \A n \in Reachable(graph) \ {Root} : ~graph.removed[n]
    /\ \A n \in Nodes \ {Root} :
         graph.removed[n] =>
           /\ graph.parent[n] = NoNode
           /\ \A p \in Nodes : ~Contains(graph.children[p], n)

C14_Witness ==
  /\ pc = "final" /\ ~options.keepgroups /\ calls = 1
  /\ \E n \in Reachable(input) \ {Root} : graph.removed[n] /\ input.children[n] # <<>>

\* The firings of a rule in the run of print that has just ended.
Fired(rule) == {f \in fired : f.rule = rule}

AfterPrint == pc = "reparent" \/ (pc = "assemble" /\ thrown = NoNode)

\* C15: once the transform-overlap rule has removed a group, its single
\* child has the group's value for each of position, rotation and scale
\* that the group had as an attribute.
C15_TransformCopied ==
  AfterPrint =>
    \A f \in Fired("overlap") :
      /\ graph.position[f.node] # 0 => graph.position[f.child] = graph.position[f.node]
      /\ graph.rotation[f.node] # 0 => graph.rotation[f.child] = graph.rotation[f.node]
      /\ graph.scale[f.node] # 1 => graph.scale[f.child] = graph.scale[f.node]

TransformKeys == {"position", "rotation", "scale"}

\* C16: the transform-overlap rule removes a group only if the group has
\* exactly one child, the child has none of position, rotation and scale as
\* an attribute, and the group has no attribute other than these three.
C16_OverlapGuard ==
  AfterPrint =>
    \A f \in Fired("overlap") :
      /\ Len(graph.children[f.node]) = 1
      /\ \A i \in 1 .. Len(f.first) : f.first[i] \notin TransformKeys
      /\ \A i \in 1 .. Len(f.own) : f.own[i] \in TransformKeys

\* The nearest ancestor of n in the tree g that is not marked removed, the
\* root if there is none.
RECURSIVE NearestKept(_, _)
NearestKept(g, n) ==
  IF g.parent[n] = NoNode THEN Root
  ELSE IF ~g.removed[g.parent[n]] THEN g.parent[n]
  ELSE NearestKept(g, g.parent[n])

InNoChildList(g, n) == \A p \in Nodes : ~Contains(g.children[p], n)

\* C17: after the re-parenting pass every node not marked removed is still
\* reachable from the root, under its nearest ancestor, in the tree as the
\* dry run left it, that is not marked removed (the root if there is none);
\* every node marked removed that had a parent is in no child list.
C17_Reparented ==
  (pc = "final" /\ ~options.keepgroups) =>
    \A n \in Reachable(dry) \ {Root} :
      IF dry.removed[n]
      THEN InNoChildList(graph, n)
      ELSE /\ n \in Reachable(graph)
           /\ graph.parent[n] = NearestKept(dry, n)
           /\ Contains(graph.children[graph.parent[n]], n)

C17_Witness ==
  /\ pc = "final" /\ ~options.keepgroups
  /\ \E n \in Reachable(dry) \ {Root} :
       /\ ~dry.removed[n]
       /\ dry.removed[dry.parent[n]]
       /\ graph.parent[n] # dry.parent[n]

\* The nodes below n in the tree g.
Below(g, n) == SeqToSet(traverse(g, n)) \ {n}

\* C18: once the lack-of-content rule has applied to a group, every node
\* below the group is marked removed, and when the re-parenting pass is over
\* the group is in no child list.
C18_BranchMarked ==
  \A f \in Fired("lack of content") :
    /\ pc = "reparent" => \A d \in Below(graph, f.node) : graph.removed[d]
    /\ (pc = "final" /\ f.node # Root) => InNoChildList(graph, f.node)

\* C19: in every state only nodes of kind group or scene carry the removed
\* marker.
C19_OnlyGroupsRemoved ==
  \A n \in Nodes : graph.removed[n] => IsGroupNode(n)

C19_Witness ==
  /\ pc = "assemble"
  /\ \E n \in Reachable(input) : graph.removed[n]
  /\ \E m \in Reachable(input) : ~IsGroupNode(m) /\ input.children[m] # <<>>

\* C20: from the end of the flatten step to the start of the final compile,
\* every mesh of the graph other than the root is a child of the root.
C20_MeshesUnderRoot ==
  (pc \in {"dryrun", "reparent", "remove", "final"} /\ ~options.keepgroups) =>
    \A m \in Reachable(input) \ {Root} :
      isMesh(m) => /\ graph.parent[m] = Root
                   /\ Contains(graph.children[Root], m)

C20_Witness ==
  /\ pc = "final" /\ ~options.keepgroups /\ calls = 1
  /\ \E m \in Reachable(input) \ {Root} :
       /\ isMesh(m)
       /\ input.parent[m] # Root
       /\ graph.removed[input.parent[m]]

\* The element that the closing tag at token j closes: the innermost one
\* open there (0 when none is).
Closes(text, j) ==
  LET st == StackAt(text, j) IN IF st = <<>> THEN 0 ELSE st[Len(st)]

\* C21: in the final markup every closing tag carries the element name of
\* the opening tag it closes, and no element is left open.
C21_WellNested ==
  pc = "done" =>
    /\ StackAt(output.scene, Len(output.scene) + 1) = <<>>
    /\ \A j \in 1 .. Len(output.scene) :
         output.scene[j].k = "</" =>
           /\ Closes(output.scene, j) # 0
           /\ output.scene[Closes(output.scene, j)].tag = output.scene[j].tag

\* C22: with the default options and a scene root, every mesh of the input
\* graph has exactly one element in the final markup.
C22_MeshesOnce ==
  (pc = "done" /\ options = DefaultOptions /\ node[Root].type = "Scene") =>
    \A m \in Reachable(input) :
      isMesh(m) => Cardinality(OpensOf(output.scene, m)) = 1

C22_Witness ==
  /\ pc = "done" /\ calls = 1 /\ options = DefaultOptions /\ node[Root].type = "Scene"
  /\ graph.removed[Root]
  /\ \E m \in Reachable(input) :
       /\ isMesh(m)
       /\ input.parent[m] # Root
       /\ node[input.parent[m]].type = "Bone"
       /\ Cardinality(OpensOf(output.scene, m)) = 1

\* C23: a second call on the graph object a first call has worked on, with
\* the same options, returns the same scene text as the first.
C23_Repeatable ==
  Len(texts) >= 2 => texts[2] = texts[1]

\* C24: no element of the final markup belongs to a node that carries the
\* removed marker.
C24_RemovedHasNoTag ==
  pc = "done" =>
    \A i \in Opens(output.scene) : ~graph.removed[output.scene[i].node]

====
